---- MODULE Spec2Model ----
(***************************************************************************)
(* SadTalker WebSocket API.                                                *)
(*                                                                         *)
(* Three components are modelled:                                          *)
(*   - the server session, websocket_endpoint of api/fastapi_server.py:    *)
(*     one handler per connection, one step per await or blocking call;    *)
(*   - the batch client, SadTalkerBatchProcessor of batch_example.py:      *)
(*     process_directory fans process_file_pair out under a semaphore;     *)
(*   - the request client, WebSocketSadTalker.generate_video of            *)
(*     app_websocket.py, with the clock of its response loop.              *)
(* Spec runs one server session against an arbitrary client and FairSpec   *)
(* adds the scheduling of its handler; BatchSpec runs one batch against an *)
(* arbitrary server, FairBatchSpec adds the event loop's fairness and a    *)
(* server that answers, SilentServerBatchSpec the event loop's fairness    *)
(* alone; GenSpec runs one call of generate_video.                         *)
(***************************************************************************)
EXTENDS Integers, Sequences, FiniteSets, TLC

\* ------------------------------------------------------------------ bounds
\* number of messages the client sends on one connection
MaxRequests == 2
\* number of work items (image x audio combinations) of one batch
MaxItems == 3
\* largest concurrency ceiling tried
MaxConcurrent == 2
\* seconds the clock of one generate_video call is followed for
MaxElapsed == 303
\* number of connections one server process accepts
MaxSessions == 2
\* number of videos one server process copies to the static directory
MaxArtifacts == 2

\* --------------------------------------------------------------- constants
\* app_websocket.py line 26, seconds
REQUEST_TIMEOUT == 300

VARIABLES
    \* ---- server (api/fastapi_server.py)
    sad_talker,     \* the global engine instance exists
    conn,           \* transport: "open" or "closed" (the client went away)
    seen,           \* the server side has noticed the closure
    spc,            \* position of websocket_endpoint
    nreq,           \* number of messages received so far
    data,           \* the local `data` of the current cycle
    image_file,     \* the local image_file (0: not in locals())
    audio_file,     \* the local audio_file (0: not in locals())
    files,          \* temporary files that exist
    nfiles,         \* number of temporary files created so far
    sent,           \* notifications delivered to the client, oldest first
    reqs,           \* history: per received message, what was done for it
    inbox,          \* messages the client has sent and the handler not yet read
    client_sent,    \* number of messages the client has sent
    response,       \* the result keys of the local `response`
    \* ---- batch client (batch_example.py)
    max_concurrent, \* the ceiling given to process_directory
    images,         \* len(images)
    audios,         \* len(audios)
    bpc,            \* position of process_directory
    tpc,            \* position of each process_with_semaphore task
    semaphore,      \* the semaphore's free slots
    processed_count,
    failed_count,
    outcome,        \* history: how each item ended
    ret,            \* the value each task returned
    results,        \* the list gather returned
    \* ---- request client (app_websocket.py)
    source_image,   \* the image path is given and exists
    driven_audio,   \* the audio path is given and exists
    gpc,            \* position of generate_video
    wait,           \* seconds the current wait_for(recv) has been pending
    elapsed,        \* seconds since the response loop was entered
    result,         \* the status message generate_video returned
    gfirst,         \* history: the first message received ("none": none)
    graised,        \* history: the exception that ended the call
    gsent,          \* history: number of requests sent
    gconnects,      \* history: number of connection attempts
    \* ---- server process (api/fastapi_server.py, all connections)
    mpc,            \* position of each connection's websocket_endpoint
    talker,         \* the local `talker` of each connection (0: unset)
    constructed,    \* number of SadTalker instances constructed so far
    static_dir,     \* the files of STATIC_DIR: name -> byte length
    locators,       \* history: the video_url of each success, with the
                    \* byte length of the video it was made for
    http,           \* the last response of an HTTP endpoint
    running,        \* the connection whose talker.test call occupies the
                    \* event loop, 0 when the loop is free
    msent,          \* history: the types of the messages sent on each
                    \* connection
    \* ---- the options of one request (fastapi_server.py:192-218)
    odata,          \* the "options" entry of the received message
    opc,            \* position: idle, received, extracted, invoked, error
    olocals,        \* the locals of lines 194-200
    oargs           \* the keyword arguments talker.test was called with

handlerVars == <<conn, seen, spc, nreq, data, image_file, audio_file,
                 files, nfiles, sent, reqs, inbox, client_sent, response>>
serverVars == <<sad_talker, handlerVars>>
batchVars == <<max_concurrent, images, audios, bpc, tpc, semaphore,
               processed_count, failed_count, outcome, ret, results>>
genVars == <<source_image, driven_audio, gpc, wait, elapsed, result,
             gfirst, graised, gsent, gconnects>>
procVars == <<mpc, talker, constructed, static_dir, locators, http,
              running, msent>>
optVars == <<odata, opc, olocals, oargs>>
vars == <<serverVars, batchVars, genVars, procVars, optVars>>

\* ================================================================ server

\* The messages a client can put on the wire, by what the handler does
\* with them.  kind: "unparsable" (receive_json raises), "scalar" (a JSON
\* number or null: the `in` test raises TypeError), "seq" (a JSON string or
\* list: the `in` test works, subscripting by a key raises), "object".
\* hasImage/hasAudio: the `in` test finds the key; imageOk/audioOk: the
\* payload base64-decodes.
NoData ==
    [kind |-> "none", hasImage |-> FALSE, hasAudio |-> FALSE,
     imageOk |-> FALSE, audioOk |-> FALSE, return_base64 |-> FALSE]

Messages ==
    { [NoData EXCEPT !.kind = k] : k \in {"unparsable", "scalar"} }
    \cup
    { [NoData EXCEPT !.kind = "seq", !.hasImage = i, !.hasAudio = a] :
        i \in BOOLEAN, a \in BOOLEAN }
    \cup
    { d \in [kind : {"object"}, hasImage : BOOLEAN, hasAudio : BOOLEAN,
             imageOk : BOOLEAN, audioOk : BOOLEAN, return_base64 : BOOLEAN] :
        /\ d.imageOk => d.hasImage
        /\ d.audioOk => d.hasAudio }

Terminal == {"success", "error"}

\* variant of the check of line 170 with `and` for `or`
MissingRequired_And(d) == ~d.hasImage /\ ~d.hasAudio
\* line 170: "image_base64" not in data or "audio_base64" not in data
MissingRequired(d) == ~d.hasImage \/ ~d.hasAudio

\* data["image_base64"] yields a decodable payload (lines 189, 57-76)
ImageDecodes(d) == d.kind = "object" /\ d.hasImage /\ d.imageOk
AudioDecodes(d) == d.kind = "object" /\ d.hasAudio /\ d.audioOk

\* the temporaries of the current request that still exist
Leftover == IF nreq = 0 THEN {} ELSE reqs[nreq].tmp \cap files

\* a notification: its type, the position that sends it (which fixes its
\* message text), the result form it carries, and, as history, the request
\* it belongs to and that request's temporaries at the time
Note(t) ==
    [type |-> t, at |-> spc, form |-> IF t = "success" THEN response ELSE {},
     req |-> nreq, leftover |-> Leftover]

\* the keys of a notification as the client reads it (lines 155-253: every
\* notification is a JSON object with type and message, a success with one
\* result key besides)
Keys(n) == {"type", "message"} \cup n.form

\* variant: a send on a closed transport never raises
SendOutcomes_NeverRaises == IF conn = "open" THEN {"delivered"} ELSE {"lost"}
\* await websocket.send_json(...): delivered while the transport is open;
\* once the client has gone the call raises, or the frame is lost as long
\* as the server side has not noticed the closure.
SendOutcomes ==
    IF conn = "open" THEN {"delivered"}
    ELSE IF seen THEN {"raised"} ELSE {"lost", "raised"}

\* where an exception of the transport lands when no inner try encloses it:
\* except WebSocketDisconnect (line 264) or except Exception (line 266)
OuterHandlers == {"done", "outer_err"}

\* one send_json at position `at`: on delivery or loss go to `next`,
\* on an exception go to one of `handlers`
Send(at, type, next, handlers) ==
    /\ spc = at
    /\ \E o \in SendOutcomes :
         \/ /\ o = "delivered"
            /\ sent' = Append(sent, Note(type))
            /\ spc' = next
            /\ seen' = seen
         \/ /\ o = "lost"
            /\ sent' = sent
            /\ spc' = next
            /\ seen' = seen
         \/ /\ o = "raised"
            /\ sent' = sent
            /\ seen' = TRUE
            /\ spc' \in handlers

ServerInit ==
    /\ sad_talker = FALSE
    /\ conn = "open"
    /\ seen = FALSE
    /\ spc = "accept"
    /\ nreq = 0
    /\ data = NoData
    /\ image_file = 0
    /\ audio_file = 0
    /\ files = {}
    /\ nfiles = 0
    /\ sent = <<>>
    /\ reqs = <<>>
    /\ inbox = <<>>
    /\ client_sent = 0
    /\ response = {}

\* the client sends a message; it may send several without waiting for the
\* answers.  What a message holds is not looked at before it is received,
\* so its content is chosen where it is received.
ClientSend ==
    /\ conn = "open"
    /\ spc \notin {"accept", "done"}
    /\ client_sent < MaxRequests
    /\ client_sent' = client_sent + 1
    /\ inbox' = Append(inbox, client_sent + 1)
    /\ UNCHANGED <<sad_talker, conn, seen, spc, nreq, data, image_file,
                   audio_file, files, nfiles, sent, reqs, response>>
    /\ UNCHANGED <<batchVars, genVars, procVars, optVars>>

\* the client closes the connection, at any moment
Disconnect ==
    /\ conn = "open"
    /\ spc # "done"
    /\ conn' = "closed"
    /\ UNCHANGED <<sad_talker, seen, spc, nreq, data, image_file, audio_file,
                   files, nfiles, sent, reqs>>
    /\ UNCHANGED <<inbox, client_sent, response>>
    /\ UNCHANGED <<batchVars, genVars, procVars, optVars>>

\* variant without the send of lines 155-157
AfterEngine_NoReady == "recv"
\* lines 153-155: with the engine at hand the ready notification is sent
AfterEngine == "ready"

\* lines 149-153: accept, then get_sad_talker() constructs the engine on
\* first use; a failing construction leaves the global unset
Accept ==
    /\ spc = "accept"
    /\ \/ /\ sad_talker' = TRUE
          /\ spc' = AfterEngine
       \/ /\ ~sad_talker
          /\ sad_talker' = FALSE
          /\ spc' = "outer_err"
    /\ UNCHANGED <<conn, seen, nreq, data, image_file, audio_file, files,
                   nfiles, sent, reqs>>
    /\ UNCHANGED <<inbox, client_sent, response>>
    /\ UNCHANGED <<batchVars, genVars, procVars, optVars>>

\* lines 155-157
SendReady ==
    /\ Send("ready", "ready", "recv", OuterHandlers)
    /\ UNCHANGED <<sad_talker, conn, nreq, data, image_file, audio_file,
                   files, nfiles, reqs>>
    /\ UNCHANGED <<inbox, client_sent, response>>
    /\ UNCHANGED <<batchVars, genVars, procVars, optVars>>

\* the position after the receive and the required-field check of a message
\* (lines 161-179)
AfterReceive(d) ==
    CASE d.kind = "unparsable" -> "err_invalid"
      [] d.kind = "scalar" -> "outer_err"
      [] MissingRequired(d) -> "err_missing"
      [] OTHER -> "status1"

\* variant: the newest queued message is delivered first
Dequeue_Newest(q) == [msg |-> q[Len(q)], rest |-> SubSeq(q, 1, Len(q) - 1)]
\* line 162: receive_json delivers the queued messages oldest first
Dequeue(q) == [msg |-> Head(q), rest |-> Tail(q)]

\* lines 160-177: receive_json and the required-field check.  The messages
\* sent before a closure are delivered before the closure is.
Receive ==
    /\ spc = "recv"
    /\ \/ /\ inbox # <<>>
          /\ \E d \in Messages :
               /\ data' = d
               /\ nreq' = nreq + 1
               /\ reqs' = Append(reqs, [id |-> Dequeue(inbox).msg, data |-> d,
                                        tmp |-> {}, engine |-> 0,
                                        failed |-> "none"])
               /\ spc' = AfterReceive(d)
          /\ inbox' = Dequeue(inbox).rest
          /\ seen' = seen
       \/ /\ inbox = <<>>
          /\ conn = "closed"
          /\ seen' = TRUE
          /\ spc' = "err_invalid"
          /\ UNCHANGED <<data, nreq, reqs, inbox>>
    /\ UNCHANGED <<sad_talker, conn, image_file, audio_file, files, nfiles,
                   sent, client_sent, response>>
    /\ UNCHANGED <<batchVars, genVars, procVars, optVars>>

\* variant without the `continue` of line 167
AfterErrInvalid_FallThrough == "err_missing"
\* lines 163-167: the error notification for a receive that raised
AfterErrInvalid == "recv"
SendInvalid ==
    /\ Send("err_invalid", "error", AfterErrInvalid, OuterHandlers)
    /\ UNCHANGED <<sad_talker, conn, nreq, data, image_file, audio_file,
                   files, nfiles, reqs>>
    /\ UNCHANGED <<inbox, client_sent, response>>
    /\ UNCHANGED <<batchVars, genVars, procVars, optVars>>

\* variant without the `continue` of line 177
AfterErrMissing_FallThrough == "status1"
\* lines 170-177: the error notification for missing fields, then continue
AfterErrMissing == "recv"
SendMissing ==
    /\ Send("err_missing", "error", AfterErrMissing, OuterHandlers)
    /\ UNCHANGED <<sad_talker, conn, nreq, data, image_file, audio_file,
                   files, nfiles, reqs>>
    /\ UNCHANGED <<inbox, client_sent, response>>
    /\ UNCHANGED <<batchVars, genVars, procVars, optVars>>

\* lines 180-182
SendStatus1 ==
    /\ Send("status1", "status", "status2", {"err_failed"})
    /\ UNCHANGED <<sad_talker, conn, nreq, data, image_file, audio_file,
                   files, nfiles, reqs>>
    /\ UNCHANGED <<inbox, client_sent, response>>
    /\ UNCHANGED <<batchVars, genVars, procVars, optVars>>

\* lines 185-187
SendStatus2 ==
    /\ Send("status2", "status", "decode", {"err_failed"})
    /\ UNCHANGED <<sad_talker, conn, nreq, data, image_file, audio_file,
                   files, nfiles, reqs>>
    /\ UNCHANGED <<inbox, client_sent, response>>
    /\ UNCHANGED <<batchVars, genVars, procVars, optVars>>

\* lines 189-200: decode_base64_to_file twice, each creating one temporary
\* file with a fresh name; the first failure raises ValueError
Decode ==
    /\ spc = "decode"
    /\ IF ~ImageDecodes(data)
       THEN /\ spc' = "err_failed"
            /\ reqs' = [reqs EXCEPT ![nreq].failed = "decode"]
            /\ UNCHANGED <<image_file, audio_file, files, nfiles>>
       ELSE /\ image_file' = nfiles + 1
            /\ IF ~AudioDecodes(data)
               THEN /\ spc' = "err_failed"
                    /\ files' = files \cup {nfiles + 1}
                    /\ nfiles' = nfiles + 1
                    /\ reqs' = [reqs EXCEPT ![nreq].tmp = {nfiles + 1},
                                             ![nreq].failed = "decode"]
                    /\ UNCHANGED audio_file
               ELSE /\ spc' = "status3"
                    /\ audio_file' = nfiles + 2
                    /\ files' = files \cup {nfiles + 1, nfiles + 2}
                    /\ nfiles' = nfiles + 2
                    /\ reqs' = [reqs EXCEPT ![nreq].tmp = {nfiles + 1, nfiles + 2}]
    /\ UNCHANGED <<sad_talker, conn, seen, nreq, data, sent>>
    /\ UNCHANGED <<inbox, client_sent, response>>
    /\ UNCHANGED <<batchVars, genVars, procVars, optVars>>

\* lines 202-204
SendStatus3 ==
    /\ Send("status3", "status", "infer", {"err_failed"})
    /\ UNCHANGED <<sad_talker, conn, nreq, data, image_file, audio_file,
                   files, nfiles, reqs>>
    /\ UNCHANGED <<inbox, client_sent, response>>
    /\ UNCHANGED <<batchVars, genVars, procVars, optVars>>

\* lines 207-218: talker.test(...) returns a result path or raises
Infer ==
    /\ spc = "infer"
    /\ \/ /\ spc' = "status4"
          /\ reqs' = [reqs EXCEPT ![nreq].engine = @ + 1]
       \/ /\ spc' = "err_failed"
          /\ reqs' = [reqs EXCEPT ![nreq].engine = @ + 1,
                                   ![nreq].failed = "infer"]
    /\ UNCHANGED <<sad_talker, conn, seen, nreq, data, image_file, audio_file,
                   files, nfiles, sent>>
    /\ UNCHANGED <<inbox, client_sent, response>>
    /\ UNCHANGED <<batchVars, genVars, procVars, optVars>>

\* lines 220-222
SendStatus4 ==
    /\ Send("status4", "status", "encode", {"err_failed"})
    /\ UNCHANGED <<sad_talker, conn, nreq, data, image_file, audio_file,
                   files, nfiles, reqs>>
    /\ UNCHANGED <<inbox, client_sent, response>>
    /\ UNCHANGED <<batchVars, genVars, procVars, optVars>>

\* os.unlink(a); os.unlink(b) inside try/except-pass: the first unlink that
\* raises skips the rest.  0 stands for a name that is not in locals(),
\* which the error path tests and skips.
Unlink(fs, f) == fs \ {f}
\* variant: the audio file is unlinked first
UnlinkBoth_AudioFirst(fs, a, b) ==
    IF b # 0 /\ b \notin fs THEN fs
    ELSE Unlink(Unlink(fs, b), a)
UnlinkBoth(fs, a, b) ==
    IF a # 0 /\ a \notin fs THEN fs
    ELSE Unlink(Unlink(fs, a), b)

\* variant: the two result forms swapped
ResultForm_Swapped(d) ==
    IF d.return_base64 THEN {"video_url"} ELSE {"video_base64"}
\* lines 225-239: video_base64 when return_base64 is set, else video_url
ResultForm(d) == IF d.return_base64 THEN {"video_base64"} ELSE {"video_url"}

\* lines 224-246: build the response (encode the video or copy it to the
\* static directory, either of which can raise), then remove both inputs
Encode ==
    /\ spc = "encode"
    /\ \/ /\ spc' = "send_success"
          /\ response' = ResultForm(data)
          /\ files' = UnlinkBoth(files, image_file, audio_file)
          /\ reqs' = reqs
       \/ /\ spc' = "err_failed"
          /\ response' = {}
          /\ files' = files
          /\ reqs' = [reqs EXCEPT ![nreq].failed = "encode"]
    /\ UNCHANGED <<sad_talker, conn, seen, nreq, data, image_file, audio_file,
                   nfiles, sent, inbox, client_sent>>
    /\ UNCHANGED <<batchVars, genVars, procVars, optVars>>

\* line 248
SendSuccess ==
    /\ Send("send_success", "success", "recv", {"err_failed"})
    /\ UNCHANGED <<sad_talker, conn, nreq, data, image_file, audio_file,
                   files, nfiles, reqs>>
    /\ UNCHANGED <<inbox, client_sent, response>>
    /\ UNCHANGED <<batchVars, genVars, procVars, optVars>>

\* lines 250-253: the error notification of the inner except; it is sent
\* from inside the handler, so an exception it raises leaves the loop
SendFailed ==
    /\ Send("err_failed", "error", "cleanup_err", OuterHandlers)
    /\ UNCHANGED <<sad_talker, conn, nreq, data, image_file, audio_file,
                   files, nfiles, reqs>>
    /\ UNCHANGED <<inbox, client_sent, response>>
    /\ UNCHANGED <<batchVars, genVars, procVars, optVars>>

\* variant: the handler raises again after the clean up
AfterCleanup_Reraise == "outer_err"
\* lines 250-262: the except clause ends and the loop goes on
AfterCleanup == "recv"
\* lines 255-262: clean up on error
CleanupOnError ==
    /\ spc = "cleanup_err"
    /\ files' = UnlinkBoth(files, image_file, audio_file)
    /\ spc' = AfterCleanup
    /\ UNCHANGED <<sad_talker, conn, seen, nreq, data, image_file, audio_file,
                   nfiles, sent, reqs>>
    /\ UNCHANGED <<inbox, client_sent, response>>
    /\ UNCHANGED <<batchVars, genVars, procVars, optVars>>

\* lines 266-273: except Exception: try to report a server error, then end
SendServerError ==
    /\ Send("outer_err", "error", "done", {"done"})
    /\ UNCHANGED <<sad_talker, conn, nreq, data, image_file, audio_file,
                   files, nfiles, reqs>>
    /\ UNCHANGED <<inbox, client_sent, response>>
    /\ UNCHANGED <<batchVars, genVars, procVars, optVars>>

\* the steps of the handler itself
HandlerNext ==
    \/ Accept
    \/ SendReady
    \/ Receive
    \/ SendInvalid
    \/ SendMissing
    \/ SendStatus1
    \/ SendStatus2
    \/ Decode
    \/ SendStatus3
    \/ Infer
    \/ SendStatus4
    \/ Encode
    \/ SendSuccess
    \/ SendFailed
    \/ CleanupOnError
    \/ SendServerError

ServerNext ==
    \/ ClientSend
    \/ Disconnect
    \/ Accept
    \/ SendReady
    \/ Receive
    \/ SendInvalid
    \/ SendMissing
    \/ SendStatus1
    \/ SendStatus2
    \/ Decode
    \/ SendStatus3
    \/ Infer
    \/ SendStatus4
    \/ Encode
    \/ SendSuccess
    \/ SendFailed
    \/ CleanupOnError
    \/ SendServerError

\* ================================================================ batch

\* len(images) * len(audios): one task per combination (lines 144-148)
N == images * audios
Items == 1 .. N

\* positions of a task at which it holds a slot of the semaphore and is
\* connecting, waiting for ready, sending or waiting for the terminal message
Active == {"connecting", "waitready", "sending", "waiting"}

\* what the server side can make websocket.recv() return: a notification of
\* some type, a success with or without video_base64, a message without a
\* "type" or that is no JSON ("malformed"); "closed": recv raises
ServerMsgs == {"ready", "status", "success_b64", "success_url", "error",
               "other", "malformed"}

\* how an item can end.  Every exception lands in the handler of lines
\* 98-101; the history tells apart a failure of the transport (connect
\* refused, connection closed), a first message that is not ready, and
\* any other exception (a file that cannot be read or written, a message
\* that is no JSON or has no "type").
Exceptions == {"TransportFailed", "NotReady", "OtherException"}
Outcomes == {"Success", "SuccessNoVideo", "ServerError"} \cup Exceptions

\* variant: an acquire that never waits
CanAcquire_Always(s) == TRUE
\* asyncio.Semaphore: acquire waits until a slot is free, then takes it
CanAcquire(s) == s > 0
Acquire(s) == s - 1

\* variant: a release that an exception skips
Release_NotOnException(s, how) == IF how \in Exceptions THEN s ELSE s + 1
\* `async with semaphore` (line 140) releases when process_file_pair has
\* returned, whichever way it returned
Release(s, how) == s + 1

\* line 90, the only increment of processed_count
ProcessedAfter(p, how) == IF how = "Success" THEN p + 1 ELSE p

\* variant without the increment of line 100
FailedAfter_ServerErrorOnly(f, how) == IF how = "ServerError" THEN f + 1 ELSE f
\* lines 95 and 100, the increments of failed_count
FailedAfter(f, how) ==
    IF how = "ServerError" \/ how \in Exceptions THEN f + 1 ELSE f

\* the value process_file_pair returns (lines 91, 96, 101; None after the
\* break of line 92)
Returned(how) == IF how = "Success" THEN "output_path" ELSE "None"

\* lines 59-63: the first message
ReadyVerdicts(m) ==
    CASE m = "closed" -> {"TransportFailed"}
      [] m = "malformed" -> {"OtherException"}
      [] m = "ready" -> {"continue"}
      [] OTHER -> {"NotReady"}

\* lines 69-96: one turn of the response loop
LoopVerdicts(m) ==
    CASE m = "closed" -> {"TransportFailed"}
      [] m = "malformed" -> {"OtherException"}
      [] m = "status" -> {"continue"}
      [] m = "success_b64" -> {"Success", "OtherException"}
      [] m = "success_url" -> {"SuccessNoVideo"}
      [] m = "error" -> {"ServerError"}
      [] OTHER -> {"continue"}

BatchInit ==
    /\ max_concurrent \in 1 .. MaxConcurrent
    /\ images \in 0 .. MaxItems
    /\ audios \in 0 .. MaxItems
    /\ images * audios <= MaxItems
    /\ bpc = "start"
    /\ tpc = <<>>
    /\ semaphore = 0
    /\ processed_count = 0
    /\ failed_count = 0
    /\ outcome = <<>>
    /\ ret = <<>>
    /\ results = <<>>

\* lines 108-129: nothing is dispatched without images or without audios
ReturnEmpty ==
    /\ bpc = "start"
    /\ images = 0 \/ audios = 0
    /\ bpc' = "returned_early"
    /\ UNCHANGED <<max_concurrent, images, audios, tpc, semaphore,
                   processed_count, failed_count, outcome, ret, results>>
    /\ UNCHANGED <<serverVars, genVars, procVars, optVars>>

\* lines 131-152: create the semaphore and the tasks, enter gather
Dispatch ==
    /\ bpc = "start"
    /\ images > 0 /\ audios > 0
    /\ semaphore' = max_concurrent
    /\ tpc' = [i \in Items |-> "new"]
    /\ outcome' = [i \in Items |-> "pending"]
    /\ ret' = [i \in Items |-> "None"]
    /\ bpc' = "gather"
    /\ UNCHANGED <<max_concurrent, images, audios, processed_count,
                   failed_count, results>>
    /\ UNCHANGED <<serverVars, genVars, procVars, optVars>>

\* process_file_pair returns by way `how`; the slot is released
Exit(i, how, slots) ==
    /\ tpc' = [tpc EXCEPT ![i] = "returned"]
    /\ outcome' = [outcome EXCEPT ![i] = how]
    /\ ret' = [ret EXCEPT ![i] = Returned(how)]
    /\ processed_count' = ProcessedAfter(processed_count, how)
    /\ failed_count' = FailedAfter(failed_count, how)
    /\ semaphore' = Release(slots, how)

\* lines 140, 27-54: take a slot, read and encode the two files
Enter(i) ==
    /\ bpc = "gather"
    /\ tpc[i] = "new"
    /\ CanAcquire(semaphore)
    /\ \/ /\ tpc' = [tpc EXCEPT ![i] = "connecting"]
          /\ semaphore' = Acquire(semaphore)
          /\ UNCHANGED <<outcome, ret, processed_count, failed_count>>
       \/ Exit(i, "OtherException", Acquire(semaphore))
    /\ UNCHANGED <<max_concurrent, images, audios, bpc, results>>
    /\ UNCHANGED <<serverVars, genVars, procVars, optVars>>

\* line 57: websockets.connect
Connect(i) ==
    /\ bpc = "gather"
    /\ tpc[i] = "connecting"
    /\ \/ /\ tpc' = [tpc EXCEPT ![i] = "waitready"]
          /\ UNCHANGED <<outcome, ret, processed_count, failed_count,
                         semaphore>>
       \/ Exit(i, "TransportFailed", semaphore)
    /\ UNCHANGED <<max_concurrent, images, audios, bpc, results>>
    /\ UNCHANGED <<serverVars, genVars, procVars, optVars>>

\* lines 59-63: wait for the ready message
RecvReady(i) ==
    /\ bpc = "gather"
    /\ tpc[i] = "waitready"
    /\ \E m \in ServerMsgs \cup {"closed"} : \E v \in ReadyVerdicts(m) :
         IF v = "continue"
         THEN /\ tpc' = [tpc EXCEPT ![i] = "sending"]
              /\ UNCHANGED <<outcome, ret, processed_count, failed_count,
                             semaphore>>
         ELSE Exit(i, v, semaphore)
    /\ UNCHANGED <<max_concurrent, images, audios, bpc, results>>
    /\ UNCHANGED <<serverVars, genVars, procVars, optVars>>

\* line 66: send the request
SendRequest(i) ==
    /\ bpc = "gather"
    /\ tpc[i] = "sending"
    /\ \/ /\ tpc' = [tpc EXCEPT ![i] = "waiting"]
          /\ UNCHANGED <<outcome, ret, processed_count, failed_count,
                         semaphore>>
       \/ Exit(i, "TransportFailed", semaphore)
    /\ UNCHANGED <<max_concurrent, images, audios, bpc, results>>
    /\ UNCHANGED <<serverVars, genVars, procVars, optVars>>

\* lines 69-74: a message that keeps the loop waiting (a status, which is
\* printed, or a type no branch handles); nothing of the client changes
RecvNonTerminal(i) ==
    /\ bpc = "gather"
    /\ tpc[i] = "waiting"
    /\ \E m \in ServerMsgs : "continue" \in LoopVerdicts(m)
    /\ UNCHANGED <<batchVars, serverVars, genVars, procVars, optVars>>

\* lines 75-101: a message, or a closed transport, that ends the loop
RecvTerminal(i) ==
    /\ bpc = "gather"
    /\ tpc[i] = "waiting"
    /\ \E m \in ServerMsgs \cup {"closed"} :
         \E v \in LoopVerdicts(m) \ {"continue"} : Exit(i, v, semaphore)
    /\ UNCHANGED <<max_concurrent, images, audios, bpc, results>>
    /\ UNCHANGED <<serverVars, genVars, procVars, optVars>>

\* variant: a wait that ends with the first task that returns
GatherReady_FirstCompleted == \E i \in Items : tpc[i] = "returned"
\* line 152: asyncio.gather returns when every task has returned
GatherReady == \A i \in Items : tpc[i] = "returned"

\* lines 152-163: collect the results and print the summary
Summarize ==
    /\ bpc = "gather"
    /\ GatherReady
    /\ results' = ret
    /\ bpc' = "done"
    /\ UNCHANGED <<max_concurrent, images, audios, tpc, semaphore,
                   processed_count, failed_count, outcome, ret>>
    /\ UNCHANGED <<serverVars, genVars, procVars, optVars>>

BatchNext ==
    \/ ReturnEmpty
    \/ Dispatch
    \/ \E i \in Items : Enter(i)
    \/ \E i \in Items : Connect(i)
    \/ \E i \in Items : RecvReady(i)
    \/ \E i \in Items : SendRequest(i)
    \/ \E i \in Items : RecvNonTerminal(i)
    \/ \E i \in Items : RecvTerminal(i)
    \/ Summarize

\* no batch is running
BatchIdle ==
    /\ max_concurrent = 1
    /\ images = 0
    /\ audios = 0
    /\ bpc = "idle"
    /\ tpc = <<>>
    /\ semaphore = 0
    /\ processed_count = 0
    /\ failed_count = 0
    /\ outcome = <<>>
    /\ ret = <<>>
    /\ results = <<>>

\* ======================================================== request client
\* what websocket.recv() can return in generate_video: the messages of
\* ServerMsgs and a success that carries neither result key
GenMsgs == ServerMsgs \cup {"success_bare"}

\* the status messages generate_video can return
GenResults == {"InvalidImage", "InvalidAudio", "NotReady", "Video",
               "VideoNotFound", "ServerError", "Unexpected", "Timeout",
               "ConnectionClosed", "InvalidURI", "ConnectionRefused",
               "UnexpectedError"}

\* a call of generate_video with some pair of inputs
GenInit ==
    /\ source_image \in BOOLEAN
    /\ driven_audio \in BOOLEAN
    /\ gpc = "validate"
    /\ wait = 0
    /\ elapsed = 0
    /\ result = "none"
    /\ gfirst = "none"
    /\ graised = "none"
    /\ gsent = 0
    /\ gconnects = 0

\* no call of generate_video
GenIdle ==
    /\ source_image = FALSE
    /\ driven_audio = FALSE
    /\ gpc = "idle"
    /\ wait = 0
    /\ elapsed = 0
    /\ result = "none"
    /\ gfirst = "none"
    /\ graised = "none"
    /\ gsent = 0
    /\ gconnects = 0

\* `return None, msg` and `return path, msg`
GenReturn(r) ==
    /\ gpc' = "returned"
    /\ result' = r
    /\ UNCHANGED <<source_image, driven_audio, wait, elapsed, graised>>

GenGoto(pc) ==
    /\ gpc' = pc
    /\ UNCHANGED <<source_image, driven_audio, wait, elapsed, result, graised>>

\* variant without the handler of line 188
GenHandler_NoCatchAll(e) ==
    CASE e = "ConnectionClosedError" -> "ConnectionClosed"
      [] e = "InvalidURI" -> "InvalidURI"
      [] e = "ConnectionRefusedError" -> "ConnectionRefused"
      [] e = "TimeoutError" -> "Timeout"
      [] OTHER -> "escaped"
\* the handlers of lines 173 and 179-189: what the call returns for an
\* exception ("escaped": no handler takes it)
GenHandler(e) ==
    CASE e = "ConnectionClosedError" -> "ConnectionClosed"
      [] e = "InvalidURI" -> "InvalidURI"
      [] e = "ConnectionRefusedError" -> "ConnectionRefused"
      [] e = "TimeoutError" -> "Timeout"
      [] OTHER -> "UnexpectedError"

\* variant: a failure of the connection is answered by a new attempt
GenRaise_Retry(e) ==
    /\ graised' = e
    /\ result' = GenHandler(e)
    /\ gpc' = IF e \in {"ConnectionRefusedError", "ConnectionClosedError"}
              THEN "connect" ELSE "returned"
    /\ UNCHANGED <<source_image, driven_audio, wait, elapsed>>
\* an exception is raised inside the try of line 66
GenRaise(e) ==
    /\ graised' = e
    /\ result' = GenHandler(e)
    /\ gpc' = IF GenHandler(e) = "escaped" THEN "escaped" ELSE "returned"
    /\ UNCHANGED <<source_image, driven_audio, wait, elapsed>>

\* lines 68-72: the two input checks
GenValidate ==
    /\ gpc = "validate"
    /\ IF ~source_image THEN GenReturn("InvalidImage")
       ELSE IF ~driven_audio THEN GenReturn("InvalidAudio")
       ELSE GenGoto("encode")
    /\ UNCHANGED <<gfirst, gsent, gconnects>>
    /\ UNCHANGED <<serverVars, batchVars, procVars, optVars>>

\* lines 75-96: read and encode the files; a read that fails raises
GenEncode ==
    /\ gpc = "encode"
    /\ \/ GenGoto("connect")
       \/ GenRaise("OSError")
    /\ UNCHANGED <<gfirst, gsent, gconnects>>
    /\ UNCHANGED <<serverVars, batchVars, procVars, optVars>>

\* what websockets.connect raises when the connection cannot be opened:
\* a refused connection, a bad URL, or another failure of the socket or
\* of the handshake
ConnectExceptions == {"ConnectionRefusedError", "InvalidURI",
                      "InvalidHandshake"}

\* lines 99-103: open the connection
GenConnect ==
    /\ gpc = "connect"
    /\ gconnects' = gconnects + 1
    /\ \/ GenGoto("send")
       \/ \E e \in ConnectExceptions : GenRaise(e)
    /\ UNCHANGED <<gfirst, gsent>>
    /\ UNCHANGED <<serverVars, batchVars, procVars, optVars>>

\* what a closed transport raises out of send and recv: after an abnormal
\* closure ConnectionClosedError, after a normal one ConnectionClosedOK
ClosedExceptions == {"ConnectionClosedError", "ConnectionClosedOK"}

\* line 106: the request is sent as soon as the connection is open
GenSend ==
    /\ gpc = "send"
    /\ \/ /\ GenGoto("waitready")
          /\ gsent' = gsent + 1
       \/ /\ \E e \in ClosedExceptions : GenRaise(e)
          /\ gsent' = gsent
    /\ UNCHANGED <<gfirst, gconnects>>
    /\ UNCHANGED <<serverVars, batchVars, procVars, optVars>>

\* variant: every first message passes for ready
IsReady_Any(m) == TRUE
\* line 112: ready_result.get("type") != "ready"
IsReady(m) == m = "ready"

\* lines 109-116: the first message
GenRecvReady ==
    /\ gpc = "waitready"
    /\ \E m \in GenMsgs \cup {"closed"} :
         /\ gfirst' = IF m = "closed" THEN gfirst ELSE m
         /\ CASE m = "closed" -> \E e \in ClosedExceptions : GenRaise(e)
              [] m = "malformed" -> GenRaise("JSONDecodeError")
              [] IsReady(m) ->
                   /\ gpc' = "loop"
                   /\ wait' = 0
                   /\ elapsed' = 0
                   /\ UNCHANGED <<source_image, driven_audio, result, graised>>
              [] OTHER -> GenReturn("NotReady")
    /\ UNCHANGED <<gsent, gconnects>>
    /\ UNCHANGED <<serverVars, batchVars, procVars, optVars>>

\* a second passes while recv is pending: wait_for(recv, REQUEST_TIMEOUT)
\* of lines 121-123 lets at most REQUEST_TIMEOUT seconds pass
GenTick ==
    /\ gpc = "loop"
    /\ wait < REQUEST_TIMEOUT
    /\ elapsed < MaxElapsed
    /\ wait' = wait + 1
    /\ elapsed' = elapsed + 1
    /\ UNCHANGED <<source_image, driven_audio, gpc, result, gfirst, graised,
                   gsent, gconnects>>
    /\ UNCHANGED <<serverVars, batchVars, procVars, optVars>>

\* seconds pending of the wait_for that the next turn of the loop starts
\* (lines 120-123: a new wait_for, with the whole timeout, for every recv)
NextWait(w) == 0

\* lines 163-165, and a success without a result key (lines 126-157 return
\* nothing for it): the loop takes its next turn
GenRecvContinue ==
    /\ gpc = "loop"
    /\ \E m \in {"status", "success_bare"} :
         /\ wait' = NextWait(wait)
         /\ UNCHANGED <<source_image, driven_audio, gpc, elapsed, result,
                        gfirst, graised, gsent, gconnects>>
    /\ UNCHANGED <<serverVars, batchVars, procVars, optVars>>

\* lines 124-171: what a message that ends the loop makes the call return
\* (video_url: the file is looked for under "./", line 150-157)
GenLoopResults(m) ==
    CASE m = "success_b64" -> {"Video"}
      [] m = "success_url" -> {"Video", "VideoNotFound"}
      [] m = "error" -> {"ServerError"}
      [] OTHER -> {"Unexpected"}

\* lines 124-139: what a message makes the loop raise: no JSON, or a video
\* that cannot be decoded or written
GenLoopRaises(m) ==
    CASE m = "malformed" -> {"JSONDecodeError"}
      [] m = "success_b64" -> {"OSError"}
      [] OTHER -> {}

GenRecvTerminal ==
    /\ gpc = "loop"
    /\ \E m \in (GenMsgs \ {"status", "success_bare"}) \cup {"closed"} :
         \/ /\ m \notin {"closed", "malformed"}
            /\ \E r \in GenLoopResults(m) : GenReturn(r)
         \/ \E e \in GenLoopRaises(m) : GenRaise(e)
         \/ /\ m = "closed"
            /\ \E e \in ClosedExceptions : GenRaise(e)
    /\ UNCHANGED <<gfirst, gsent, gconnects>>
    /\ UNCHANGED <<serverVars, batchVars, procVars, optVars>>

\* lines 173-177: wait_for raises TimeoutError
GenTimeout ==
    /\ gpc = "loop"
    /\ wait >= REQUEST_TIMEOUT
    /\ GenRaise("TimeoutError")
    /\ UNCHANGED <<gfirst, gsent, gconnects>>
    /\ UNCHANGED <<serverVars, batchVars, procVars, optVars>>

GenNext ==
    \/ GenValidate
    \/ GenEncode
    \/ GenConnect
    \/ GenSend
    \/ GenRecvReady
    \/ GenTick
    \/ GenRecvContinue
    \/ GenRecvTerminal
    \/ GenTimeout

\* ======================================================== server process
\* All connections of one process: the shared engine, the static directory
\* and the HTTP endpoints.  Of a connection's handler only the steps that
\* touch what the connections share are followed here.
Sessions == 1 .. MaxSessions

\* byte lengths of the videos the engine produces
VideoSizes == {1, 2}

\* the file name "..": joined to STATIC_DIR it is the parent directory,
\* which exists and is no file
DotDot == 0

\* file names asked of the HTTP endpoints: those copy_to_static can have
\* made, one it never made, and ".."
FileNames == (1 .. MaxArtifacts + 1) \cup {DotDot}

NoResponse == [endpoint |-> "none", path |-> <<>>, code |-> 0, bytes |-> 0,
               sad_talker_loaded |-> FALSE]

\* a fresh process: no engine, an empty static directory, no connection
ProcInit ==
    /\ mpc = [c \in Sessions |-> "idle"]
    /\ talker = [c \in Sessions |-> 0]
    /\ constructed = 0
    /\ static_dir = <<>>
    /\ locators = <<>>
    /\ http = NoResponse
    /\ running = 0
    /\ msent = [c \in Sessions |-> {}]

\* no process-wide step is followed
ProcIdle ==
    /\ mpc = <<>>
    /\ talker = <<>>
    /\ constructed = 0
    /\ static_dir = <<>>
    /\ locators = <<>>
    /\ http = NoResponse
    /\ running = 0
    /\ msent = <<>>

\* variant: the engine call is handed to another thread
LoopFree_Offloaded(r) == TRUE
\* the handlers and endpoints are coroutines of one event loop, and
\* talker.test (line 207) is called without await or executor: from its
\* start to its return the loop runs nothing else
LoopFree(r) == r = 0

\* line 149: await websocket.accept()
SessionAccept(c) ==
    /\ LoopFree(running)
    /\ mpc[c] = "idle"
    /\ mpc' = [mpc EXCEPT ![c] = "accepted"]
    /\ UNCHANGED <<sad_talker, talker, constructed, static_dir, locators, http>>
    /\ UNCHANGED <<running, msent>>
    /\ UNCHANGED <<handlerVars, batchVars, genVars, optVars>>

\* variant: construct on every call
NeedsConstruction_Always(g) == TRUE
\* line 48: if sad_talker is None
NeedsConstruction(g) == ~g

\* variant: ready whatever get_sad_talker did
Notice_Ready(ok) == "ready"
\* the message that follows get_sad_talker: ready (line 155) when it
\* returned, the server error of line 268 when it raised
Notice(ok) == IF ok THEN "ready" ELSE "server_error"

\* lines 45-54 called from line 153: get_sad_talker has no await, so the
\* test and the assignment are one step of the event loop; the send of
\* ready follows it (line 155).  A constructor that raises leaves the
\* global unset; the handler of line 266 sends the server error, which a
\* closed transport swallows (line 272), and the handler ends.
GetSadTalker(c) ==
    /\ LoopFree(running)
    /\ mpc[c] = "accepted"
    /\ IF NeedsConstruction(sad_talker)
       THEN \/ /\ sad_talker' = TRUE
               /\ constructed' = constructed + 1
               /\ talker' = [talker EXCEPT ![c] = constructed + 1]
               /\ mpc' = [mpc EXCEPT ![c] = "serving"]
               /\ msent' = [msent EXCEPT ![c] = @ \cup {Notice(TRUE)}]
            \/ /\ mpc' = [mpc EXCEPT ![c] = "ended"]
               /\ \/ msent' = [msent EXCEPT ![c] = @ \cup {Notice(FALSE)}]
                  \/ UNCHANGED msent
               /\ UNCHANGED <<sad_talker, constructed, talker>>
       ELSE /\ talker' = [talker EXCEPT ![c] = constructed]
            /\ mpc' = [mpc EXCEPT ![c] = "serving"]
            /\ msent' = [msent EXCEPT ![c] = @ \cup {Notice(TRUE)}]
            /\ UNCHANGED <<sad_talker, constructed>>
    /\ UNCHANGED <<static_dir, locators, http, running>>
    /\ UNCHANGED <<handlerVars, batchVars, genVars, optVars>>

\* lines 162-204: a request is received, its payloads are decoded and the
\* status notifications are sent; the engine call is next
SessionReceive(c) ==
    /\ LoopFree(running)
    /\ mpc[c] = "serving"
    /\ mpc' = [mpc EXCEPT ![c] = "processing"]
    /\ UNCHANGED <<sad_talker, talker, constructed, static_dir, locators, http>>
    /\ UNCHANGED <<running, msent>>
    /\ UNCHANGED <<handlerVars, batchVars, genVars, optVars>>

\* line 207: talker.test is entered
InferStart(c) ==
    /\ LoopFree(running)
    /\ mpc[c] = "processing"
    /\ mpc' = [mpc EXCEPT ![c] = "inferring"]
    /\ running' = c
    /\ UNCHANGED <<sad_talker, talker, constructed, static_dir, locators, http>>
    /\ UNCHANGED msent
    /\ UNCHANGED <<handlerVars, batchVars, genVars, optVars>>

\* lines 207-218: talker.test returns a result path, or raises and the
\* handler of line 250 sends the error of the request
InferReturn(c) ==
    /\ mpc[c] = "inferring"
    /\ running' = 0
    /\ \/ /\ mpc' = [mpc EXCEPT ![c] = "inferred"]
          /\ UNCHANGED msent
       \/ /\ mpc' = [mpc EXCEPT ![c] = "serving"]
          /\ msent' = [msent EXCEPT ![c] = @ \cup {"error"}]
    /\ UNCHANGED <<sad_talker, talker, constructed, static_dir, locators, http>>
    /\ UNCHANGED <<handlerVars, batchVars, genVars, optVars>>

\* lines 225-248 with return_base64: the video goes into the success
\* message, nothing is stored
RespondBase64(c) ==
    /\ LoopFree(running)
    /\ mpc[c] = "inferred"
    /\ mpc' = [mpc EXCEPT ![c] = "serving"]
    /\ msent' = [msent EXCEPT ![c] = @ \cup {"success"}]
    /\ UNCHANGED <<sad_talker, talker, constructed, static_dir, locators, http>>
    /\ UNCHANGED running
    /\ UNCHANGED <<handlerVars, batchVars, genVars, optVars>>

\* variant: the locator names the download route
Locator_Download(name) == <<"download", name>>
\* line 95: f"/static/{filename}", as path segments
Locator(name) == <<"static", name>>

\* lines 92-94: a new uuid4 name, and a copy of the result file under it
StoreCopy(dir, b) == Append(dir, b)

\* lines 236-239 with 89-97: a request without return_base64 whose
\* inference produced a video of b bytes; copy_to_static copies it and the
\* success response carries the locator.  The steps of the request before
\* the copy are followed by SessionReceive, InferStart and InferReturn.  A copy that raises makes the
\* request an error and is without a locator.
CopyToStatic(c) ==
    /\ LoopFree(running)
    /\ mpc[c] = "serving"
    /\ Len(static_dir) < MaxArtifacts
    /\ \E b \in VideoSizes :
         /\ static_dir' = StoreCopy(static_dir, b)
         /\ locators' = Append(locators,
                [video_url |-> Locator(Len(static_dir) + 1), bytes |-> b,
                 session |-> c])
    /\ msent' = [msent EXCEPT ![c] = @ \cup {"success"}]
    /\ UNCHANGED <<sad_talker, mpc, talker, constructed, http, running>>
    /\ UNCHANGED <<handlerVars, batchVars, genVars, optVars>>

\* lines 264-273: the handler of a connection ends
SessionEnd(c) ==
    /\ LoopFree(running)
    /\ mpc[c] = "serving"
    /\ mpc' = [mpc EXCEPT ![c] = "ended"]
    /\ UNCHANGED <<sad_talker, talker, constructed, static_dir, locators, http>>
    /\ UNCHANGED <<running, msent>>
    /\ UNCHANGED <<handlerVars, batchVars, genVars, optVars>>

\* variant: a flag that is always set
Loaded_Always(g) == TRUE
\* line 143: sad_talker is not None
Loaded(g) == g

\* lines 140-143: GET /health
HealthCheck ==
    /\ LoopFree(running)
    /\ http' = [NoResponse EXCEPT !.endpoint = "health", !.code = 200,
                                  !.sad_talker_loaded = Loaded(sad_talker)]
    /\ UNCHANGED <<sad_talker, mpc, talker, constructed, static_dir, locators>>
    /\ UNCHANGED <<running, msent>>
    /\ UNCHANGED <<handlerVars, batchVars, genVars, optVars>>

\* a regular file of that name is in the static directory
IsFile(dir, name) == name \in DOMAIN dir

\* line 280: os.path.exists(os.path.join(STATIC_DIR, filename)), which is
\* true of a directory as well
Exists(dir, name) == IsFile(dir, name) \/ name = DotDot

Response(ep, path, code, bytes) ==
    [NoResponse EXCEPT !.endpoint = ep, !.path = path, !.code = code,
                       !.bytes = bytes]

\* lines 276-283: GET /download/{filename}; the route takes any one path
\* segment as filename.  FileResponse sends a regular file and raises for
\* anything else, which the server answers with 500.
DownloadFile ==
    /\ LoopFree(running)
    /\ \E name \in FileNames :
         http' = IF ~Exists(static_dir, name)
                 THEN Response("download", <<"download", name>>, 404, 0)
                 ELSE IF IsFile(static_dir, name)
                 THEN Response("download", <<"download", name>>, 200,
                               static_dir[name])
                 ELSE Response("download", <<"download", name>>, 500, 0)
    /\ UNCHANGED <<sad_talker, mpc, talker, constructed, static_dir, locators>>
    /\ UNCHANGED <<running, msent>>
    /\ UNCHANGED <<handlerVars, batchVars, genVars, optVars>>

\* line 39: the StaticFiles mount answers GET /static/{filename} with the
\* regular file of that name inside STATIC_DIR, and with 404 otherwise
StaticGet ==
    /\ LoopFree(running)
    /\ \E name \in FileNames :
         http' = IF IsFile(static_dir, name)
                 THEN Response("static", <<"static", name>>, 200,
                               static_dir[name])
                 ELSE Response("static", <<"static", name>>, 404, 0)
    /\ UNCHANGED <<sad_talker, mpc, talker, constructed, static_dir, locators>>
    /\ UNCHANGED <<running, msent>>
    /\ UNCHANGED <<handlerVars, batchVars, genVars, optVars>>

ProcNext ==
    \/ \E c \in Sessions : SessionAccept(c)
    \/ \E c \in Sessions : GetSadTalker(c)
    \/ \E c \in Sessions : CopyToStatic(c)
    \/ \E c \in Sessions : SessionEnd(c)
    \/ HealthCheck
    \/ DownloadFile
    \/ StaticGet

\* the handlers of the connections on the one event loop, for requests with
\* return_base64: accept, engine, receive, inference, answer
LoopNext ==
    \/ \E c \in Sessions : SessionAccept(c)
    \/ \E c \in Sessions : GetSadTalker(c)
    \/ \E c \in Sessions : SessionReceive(c)
    \/ \E c \in Sessions : InferStart(c)
    \/ \E c \in Sessions : InferReturn(c)
    \/ \E c \in Sessions : RespondBase64(c)
    \/ \E c \in Sessions : SessionEnd(c)

\* =============================================================== options

\* the option fields lines 194-200 read
OptionKeys == {"preprocess", "still_mode", "use_enhancer", "batch_size",
               "size", "pose_style", "expression_scale"}
\* a field of "options" that the handler does not read
UnknownKey == "fps"

\* values a client can put in each field: documented ones (lines 117-123)
\* and others
PreprocessValues == {"crop", "full", "blur"}
BatchSizeValues == {0, 1, 4}
SizeValues == {512, 100}
PoseStyleValues == {46, 47}
ScaleValues == {"1.5"}

\* a JSON object with the fields D
Dict(D, p, st, ue, bs, sz, ps, es) ==
    [k \in D |->
        CASE k = "preprocess" -> p
          [] k = "still_mode" -> st
          [] k = "use_enhancer" -> ue
          [] k = "batch_size" -> bs
          [] k = "size" -> sz
          [] k = "pose_style" -> ps
          [] k = "expression_scale" -> es
          [] OTHER -> 25]

\* the "options" entry of a message: absent, a JSON object, or any other
\* JSON value (null, a number, a list)
OptionData ==
    {[kind |-> "absent", options |-> <<>>],
     [kind |-> "other", options |-> <<>>]}
    \cup
    {[kind |-> "object", options |-> Dict(D, p, st, ue, bs, sz, ps, es)] :
        D \in SUBSET (OptionKeys \cup {UnknownKey}),
        p \in PreprocessValues, st \in BOOLEAN, ue \in BOOLEAN,
        bs \in BatchSizeValues, sz \in SizeValues, ps \in PoseStyleValues,
        es \in ScaleValues}

\* variant: a lookup that ignores the given value
Get_Default(d, k, default) == default
\* dict.get(k, default)
Get(d, k, default) == IF k \in DOMAIN d THEN d[k] ELSE default

\* line 193: data.get("options", {})
OptionsOf(d) == IF d.kind = "absent" THEN <<>> ELSE d.options

\* lines 194-200
Extract(o) ==
    [preprocess |-> Get(o, "preprocess", "crop"),
     still_mode |-> Get(o, "still_mode", FALSE),
     use_enhancer |-> Get(o, "use_enhancer", FALSE),
     batch_size |-> Get(o, "batch_size", 2),
     size |-> Get(o, "size", 256),
     pose_style |-> Get(o, "pose_style", 0),
     expression_scale |-> Get(o, "expression_scale", "1.0")]

\* the keyword arguments of lines 207-218 that come from the options
Kwargs(l) ==
    [preprocess |-> l.preprocess,
     still_mode |-> l.still_mode,
     use_enhancer |-> l.use_enhancer,
     batch_size |-> l.batch_size,
     size |-> l.size,
     pose_style |-> l.pose_style,
     exp_scale |-> l.expression_scale]

OptIdle ==
    /\ odata = [kind |-> "absent", options |-> <<>>]
    /\ opc = "idle"
    /\ olocals = <<>>
    /\ oargs = <<>>

\* a request with both payloads decoded (line 190 passed)
OptInit ==
    /\ odata \in OptionData
    /\ opc = "received"
    /\ olocals = <<>>
    /\ oargs = <<>>

\* lines 193-200; options.get on a value that is no object raises
\* AttributeError, which the handler of line 250 reports as an error
OptExtract ==
    /\ opc = "received"
    /\ IF odata.kind = "other"
       THEN /\ opc' = "error"
            /\ UNCHANGED olocals
       ELSE /\ opc' = "extracted"
            /\ olocals' = Extract(OptionsOf(odata))
    /\ UNCHANGED <<odata, oargs>>
    /\ UNCHANGED <<serverVars, batchVars, genVars, procVars>>

\* lines 207-218: the call of the engine
OptInvoke ==
    /\ opc = "extracted"
    /\ opc' = "invoked"
    /\ oargs' = Kwargs(olocals)
    /\ UNCHANGED <<odata, olocals>>
    /\ UNCHANGED <<serverVars, batchVars, genVars, procVars>>

OptNext == OptExtract \/ OptInvoke

\* ======================================================== specifications
\* one server session and its client
Init == ServerInit /\ BatchIdle /\ GenIdle /\ ProcIdle /\ OptIdle
Next == ServerNext
Spec == Init /\ [][Next]_vars

\* the handler is one coroutine: the event loop runs its next step, the
\* engine call returns or raises, and a queued message is delivered
FairSpec == Spec /\ WF_vars(HandlerNext)

\* one batch run and the server side it talks to
InitBatch == BatchInit /\ ServerInit /\ GenIdle /\ ProcIdle /\ OptIdle
BatchSpec == InitBatch /\ [][BatchNext]_vars

\* the event loop runs every task that can take a step, the semaphore wakes
\* its waiters in turn, and the server side answers or closes
FairBatchSpec ==
    /\ BatchSpec
    /\ WF_vars(Dispatch)
    /\ WF_vars(Summarize)
    /\ \A i \in 1 .. MaxItems :
         /\ SF_vars(i \in Items /\ Enter(i))
         /\ WF_vars(i \in Items /\ Connect(i))
         /\ WF_vars(i \in Items /\ RecvReady(i))
         /\ WF_vars(i \in Items /\ SendRequest(i))
         /\ WF_vars(i \in Items /\ RecvTerminal(i))

\* one call of generate_video and the server side it talks to
InitGen == GenInit /\ ServerInit /\ BatchIdle /\ ProcIdle /\ OptIdle
GenSpec == InitGen /\ [][GenNext]_vars

\* one call of either client: generate_video, or a batch
InitClients ==
    /\ \/ GenInit /\ BatchIdle
       \/ GenIdle /\ BatchInit
    /\ ServerInit
    /\ ProcIdle
    /\ OptIdle
ClientsNext == GenNext \/ BatchNext
ClientsSpec == InitClients /\ [][ClientsNext]_vars

\* one server process, its connections and its HTTP endpoints
InitProc == ProcInit /\ ServerInit /\ BatchIdle /\ GenIdle /\ OptIdle
ProcSpec == InitProc /\ [][ProcNext]_vars

\* the connection handlers of one process on its event loop
LoopSpec == InitProc /\ [][LoopNext]_vars

\* the handling of the options of one request
InitOpt == OptInit /\ ServerInit /\ BatchIdle /\ GenIdle /\ ProcIdle
OptionsSpec == InitOpt /\ [][OptNext]_vars

\* the same event loop against a server that owes no terminal message: the
\* receive of lines 70-96 is left without a fairness condition
SilentServerBatchSpec ==
    /\ BatchSpec
    /\ WF_vars(Dispatch)
    /\ WF_vars(Summarize)
    /\ \A i \in 1 .. MaxItems :
         /\ SF_vars(i \in Items /\ Enter(i))
         /\ WF_vars(i \in Items /\ Connect(i))
         /\ WF_vars(i \in Items /\ RecvReady(i))
         /\ WF_vars(i \in Items /\ SendRequest(i))

\* ================================================================ claims

\* how many notifications of the types `types` request k was sent
Count(k, types) ==
    Cardinality({ i \in 1 .. Len(sent) :
                    sent[i].req = k /\ sent[i].type \in types })

\* request k has been dealt with: a later message was read, or the handler
\* is back at the receive, or it has ended
Finished(k) == k < nreq \/ spc \in {"recv", "done"}

\* C1: on a connection that stays open, every message the session has read
\* has been sent exactly one terminal notification (success or error) by the
\* time the next message is read, and never more than one at any time.
C1_ExactlyOneTerminal ==
    \A k \in 1 .. nreq :
        /\ Count(k, Terminal) <= 1
        /\ (conn = "open" /\ Finished(k)) => Count(k, Terminal) = 1

C1_Witness ==
    /\ conn = "open"
    /\ nreq = 2
    /\ spc = "recv"
    /\ Count(1, {"success"}) = 1
    /\ Count(2, {"error"}) = 1
    /\ reqs[2].engine = 1

\* the message lacks image_base64 or audio_base64, as a JSON object or as
\* another container the membership test applies to
LacksField(d) ==
    d.kind \in {"object", "seq"} /\ (~d.hasImage \/ ~d.hasAudio)

\* C2: a request that lacks image_base64 or audio_base64 gets one error and
\* no status notification, creates no temporary file, does not reach the
\* engine, and leaves the session at its receive for the next request.
C2_MissingFields ==
    \A k \in 1 .. nreq :
        LacksField(reqs[k].data) =>
            /\ Count(k, {"status", "success"}) = 0
            /\ Count(k, {"error"}) <= 1
            /\ reqs[k].tmp = {}
            /\ reqs[k].engine = 0
            /\ (k = nreq /\ conn = "open") => spc \in {"err_missing", "recv"}
            /\ (conn = "open" /\ (k < nreq \/ spc = "recv")) =>
                   Count(k, {"error"}) = 1

C2_Witness ==
    /\ conn = "open"
    /\ nreq = 2
    /\ LacksField(reqs[1].data)
    /\ reqs[1].data.hasImage
    /\ Count(1, {"error"}) = 1
    /\ Count(2, {"success"}) = 1

\* C3: when a terminal notification is sent, no temporary file of its
\* request is left.
C3_NoTemporaryAtTerminal ==
    \A i \in 1 .. Len(sent) :
        sent[i].type \in Terminal => sent[i].leftover = {}

\* C4: once the handler has returned, no temporary file remains.
C4_NoTemporaryAfterReturn == spc = "done" => files = {}

\* the items that hold a slot
Holders == { i \in Items : bpc = "gather" /\ tpc[i] \in Active }

\* C5: at most max_concurrent executions of process_file_pair are active at
\* any time.
C5_AtMostCActive == Cardinality(Holders) <= max_concurrent

C5_Witness ==
    /\ N > max_concurrent
    /\ Cardinality(Holders) = max_concurrent
    /\ \E i \in Items : bpc = "gather" /\ tpc[i] = "new"

\* C6: an item holds one slot from before it connects until it has
\* returned, whichever way it returns, so the free slots are the ceiling
\* less the active items and all slots are free when the run has ended.
C6_SlotHeldAndReleased ==
    bpc \in {"gather", "done"} =>
        /\ semaphore = max_concurrent - Cardinality(Holders)
        /\ bpc = "done" => semaphore = max_concurrent

C6_Witness ==
    /\ bpc = "done"
    /\ N > max_concurrent
    /\ semaphore = max_concurrent
    /\ \E i \in Items : outcome[i] = "Success"
    /\ \E i \in Items : outcome[i] = "ServerError"
    /\ \E i \in Items : outcome[i] \in Exceptions

\* the item ended in a failure
Failed(i) == outcome[i] \in Exceptions \cup {"ServerError"}

\* the step in which an item fails changes no other item
FailureTouchesNoOther ==
    \A j \in Items :
        (bpc = "gather" /\ ~Failed(j) /\ Failed(j)') =>
            \A i \in Items \ {j} :
                tpc'[i] = tpc[i] /\ outcome'[i] = outcome[i]

\* some item of the running batch has failed
SomeFailed == bpc = "gather" /\ Cardinality({ j \in Items : Failed(j) }) > 0

\* every item of the batch has returned
AllSettled ==
    bpc \in {"gather", "done"} /\ Cardinality({ i \in Items : tpc[i] # "returned" }) = 0

\* C7: a failure of one item leaves every other item as it was, and every
\* other item still gets a slot and returns.
C7_FailureIsolation ==
    /\ [][FailureTouchesNoOther]_vars
    /\ SomeFailed ~> AllSettled

C7_Witness ==
    /\ bpc = "gather"
    /\ max_concurrent = 1
    /\ \E j \in Items : outcome[j] \in Exceptions
    /\ \E j \in Items : outcome[j] = "ServerError"
    /\ \E i \in Items : tpc[i] = "waiting"

\* the number of items that ended one of the ways `hows`
Ended(hows) == Cardinality({ i \in Items : outcome[i] \in hows })

\* C8: after a run, processed_count is the number of items that received a
\* success, failed_count the number of all others, and they add up to N.
C8_CountsAddUp ==
    bpc = "done" =>
        /\ processed_count = Ended({"Success", "SuccessNoVideo"})
        /\ failed_count = N - processed_count
        /\ processed_count + failed_count = N

\* C9: a run in which every item fails at the transport ends with
\* processed_count = 0, failed_count = N and N results.
C9_AllTransportFailures ==
    (bpc = "done" /\ Ended({"TransportFailed"}) = N) =>
        /\ processed_count = 0
        /\ failed_count = N
        /\ Len(results) = N

C9_Witness ==
    /\ bpc = "done"
    /\ N >= 2
    /\ Ended({"TransportFailed"}) = N
    /\ failed_count = N
    /\ Len(results) = N

\* C10: process_directory has ended only when every dispatched item has
\* returned.
C10_EndsAfterAllSettled ==
    bpc \in {"done", "returned_early"} =>
        \A i \in Items : tpc[i] = "returned" /\ outcome[i] # "pending"

C10_Witness ==
    /\ bpc = "done"
    /\ N >= 2
    /\ \A i \in Items : tpc[i] = "returned"
    /\ \E i \in Items : outcome[i] = "Success"

\* the batch has dispatched its items and waits for them
Gathering == bpc = "gather"
\* the batch has printed its summary
BatchEnded == bpc = "done"

\* C11: a dispatched batch ends even when the server sends no terminal
\* notification: every wait is bounded, so every item settles, gives its
\* slot back, and the summary is reached.
C11_BatchEndsWithoutTerminal == Gathering ~> BatchEnded

\* C12: while generate_video waits for the terminal notification, no more
\* than the timeout has passed since it entered the response loop, however
\* many status notifications it has received.
C12_BudgetFromLoopEntry == gpc = "loop" => elapsed <= REQUEST_TIMEOUT

C14_NoMessageEndsSession ==
    (conn = "open" /\ nreq >= 1) => spc \notin {"outer_err", "done"}

\* C15: a message that cannot be parsed gets one error and no status
\* notification, creates no temporary file, does not reach the engine, and
\* leaves the session at its receive.
C15_Unparsable ==
    \A k \in 1 .. nreq :
        reqs[k].data.kind = "unparsable" =>
            /\ Count(k, {"status", "success"}) = 0
            /\ Count(k, {"error"}) <= 1
            /\ reqs[k].tmp = {}
            /\ reqs[k].engine = 0
            /\ (k = nreq /\ conn = "open") => spc \in {"err_invalid", "recv"}
            /\ (conn = "open" /\ (k < nreq \/ spc = "recv")) =>
                   Count(k, {"error"}) = 1

C15_Witness ==
    /\ conn = "open"
    /\ nreq = 2
    /\ reqs[1].data.kind = "unparsable"
    /\ Count(1, {"error"}) = 1
    /\ Count(2, {"success"}) = 1

\* once the handler has ended it receives, sends and processes nothing
EndedStaysEnded ==
    spc = "done" => (spc' = "done" /\ sent' = sent /\ nreq' = nreq /\ reqs' = reqs)

\* C16: after a disconnect the handler ends, whatever it was doing, and
\* does nothing afterwards.
C16_DisconnectEndsHandler ==
    /\ [][EndedStaysEnded]_vars
    /\ (conn = "closed") ~> (spc = "done")

C16_Witness ==
    /\ spc = "done"
    /\ conn = "closed"
    /\ nreq >= 1
    /\ reqs[nreq].engine = 1
    /\ Count(nreq, Terminal) = 0

\* C17: requests are served in the order sent, and the notifications of a
\* request all come before those of the next one.
C17_SingleFlight ==
    /\ \A k \in 1 .. nreq : reqs[k].id = k
    /\ \A i \in 1 .. Len(sent) : \A j \in 1 .. Len(sent) :
         i < j => sent[i].req <= sent[j].req

C17_Witness ==
    /\ conn = "open"
    /\ nreq = 1
    /\ Len(inbox) = 1
    /\ spc = "infer"
    /\ Count(1, {"status"}) = 3

\* the notifications are in order: ready first and once, and nothing of a
\* request after its terminal notification
InOrder ==
    /\ Cardinality({ i \in 1 .. Len(sent) : sent[i].type = "ready" }) <= 1
    /\ Len(sent) >= 1 => sent[1].type = "ready"
    /\ \A i \in 1 .. Len(sent) : \A j \in 1 .. Len(sent) :
         (i < j /\ sent[i].type \in Terminal) => sent[i].req < sent[j].req

\* C18, as claimed: on every connection one ready notification precedes
\* every other message, and a request's status notifications precede its
\* one terminal notification.
C18_Ordered == InOrder

\* C18, amended: the same on every connection whose engine is available;
\* when the construction of the engine fails no ready is sent and the
\* connection gets at most one message, a server error.
C18_OrderedWhenEngine ==
    IF sad_talker \/ spc = "accept"
    THEN InOrder
    ELSE /\ Len(sent) <= 1
         /\ \A i \in 1 .. Len(sent) :
              sent[i].type = "error" /\ sent[i].at = "outer_err"

C18_Witness ==
    /\ conn = "open"
    /\ nreq = 2
    /\ spc = "recv"
    /\ sent[1].type = "ready"
    /\ Count(1, {"status"}) = 4 /\ Count(1, {"success"}) = 1
    /\ Count(2, {"status"}) = 3 /\ Count(2, {"error"}) = 1

\* C19: when the handler has ended on an open connection, with the engine
\* available, every message the client had sent has got its terminal
\* notification.
C19_EveryMessageAnswered ==
    (conn = "open" /\ spc = "done" /\ sad_talker) =>
        \A m \in 1 .. client_sent :
            \E k \in 1 .. nreq : reqs[k].id = m /\ Count(k, Terminal) = 1

\* C20: a success carries video_base64 alone when return_base64 is set and
\* video_url alone when it is not; no other notification carries either.
C20_OneResultForm ==
    \A i \in 1 .. Len(sent) :
        IF sent[i].type = "success"
        THEN sent[i].form =
                 (IF reqs[sent[i].req].data.return_base64
                  THEN {"video_base64"} ELSE {"video_url"})
        ELSE sent[i].form = {}

C20_Witness ==
    /\ nreq = 2
    /\ \E i \in 1 .. Len(sent) :
         sent[i].type = "success" /\ sent[i].form = {"video_base64"}
    /\ \E i \in 1 .. Len(sent) :
         sent[i].type = "success" /\ sent[i].form = {"video_url"}

\* an HTTP endpoint has just answered
Answered(ep) == http' # http /\ http'.endpoint = ep

\* no file of the static directory is removed or rewritten
StoreOnlyGrows ==
    /\ Len(static_dir') >= Len(static_dir)
    /\ SubSeq(static_dir', 1, Len(static_dir)) = static_dir

\* every locator begins with the static prefix and names a stored file of
\* the byte length of the video it was made for
LocatorsResolve ==
    \A i \in 1 .. Len(locators) :
        /\ locators[i].video_url[1] = "static"
        /\ locators[i].video_url[2] \in 1 .. Len(static_dir)
        /\ static_dir[locators[i].video_url[2]] = locators[i].bytes

\* a retrieval at a locator handed out earlier finds the video
RetrievalFinds ==
    \A i \in 1 .. Len(locators) :
        (Answered("static") /\ http'.path = locators[i].video_url) =>
            (http'.code = 200 /\ http'.bytes = locators[i].bytes)

\* C21: the locator of a success without return_base64 begins with
\* "/static/" and names a stored copy of the produced video, of the same
\* byte length; a retrieval at it, at any later time, finds that copy.
C21_LocatorResolves ==
    /\ [](LocatorsResolve)
    /\ [][StoreOnlyGrows]_vars
    /\ [][RetrievalFinds]_vars

C21_Witness ==
    /\ Len(locators) = 2
    /\ locators[1].bytes # locators[2].bytes
    /\ http.endpoint = "static"
    /\ http.path = locators[2].video_url
    /\ http.code = 200

\* the download endpoint answers 404 for a name that is not stored and the
\* stored file for a name that is
DownloadAnswers ==
    Answered("download") =>
        /\ http'.path[2] \notin 1 .. Len(static_dir) => http'.code = 404
        /\ http'.path[2] \in 1 .. Len(static_dir) =>
              (http'.code = 200 /\ http'.bytes = static_dir[http'.path[2]])
        /\ \A i \in 1 .. Len(locators) :
              locators[i].video_url[2] = http'.path[2] =>
                  (http'.code = 200 /\ http'.bytes = locators[i].bytes)

\* C22: the retrieval endpoint answers 404 exactly for the names under
\* which nothing is stored, and the stored video for every name a success
\* has handed out.
C22_DownloadOr404 == [][DownloadAnswers]_vars

\* the liveness endpoint answers with the flag of the engine
HealthAnswers ==
    Answered("health") =>
        (http'.code = 200 /\ http'.sad_talker_loaded = (constructed > 0))

\* once constructed the engine stays
EngineStays == sad_talker => sad_talker'

OneInstance ==
    /\ constructed <= 1
    /\ Cardinality({ c \in Sessions : mpc[c] = "serving" /\ talker[c] # 1 }) = 0

\* a call made when the engine exists constructs nothing
NoSecondConstruction == sad_talker => constructed' = constructed

\* C24: under every interleaving of the connections the engine is
\* constructed at most once; every later get_sad_talker returns that
\* instance and constructs nothing.
C24_ConstructedOnce ==
    /\ [](OneInstance)
    /\ [][NoSecondConstruction]_vars

C24_Witness ==
    /\ constructed = 1
    /\ \A c \in Sessions : mpc[c] = "serving" /\ talker[c] = 1

\* a batch has dispatched its items
Dispatched == bpc \in {"gather", "done"}

\* C25: generate_video and process_file_pair let no exception escape:
\* whatever is raised inside them, they return a value.
C25_NoExceptionEscapes ==
    /\ gpc # "escaped"
    /\ gpc = "returned" => result \in GenResults
    /\ graised # "none" => (gpc = "returned" /\ result \in GenResults)
    /\ Dispatched =>
          \A i \in Items :
              /\ outcome[i] \in Exceptions =>
                    (tpc[i] = "returned" /\ ret[i] = "None")
              /\ tpc[i] = "returned" => ret[i] \in {"output_path", "None"}
    /\ bpc = "done" => results = ret

C25_Witness ==
    /\ gpc = "returned"
    /\ graised = "JSONDecodeError"
    /\ gfirst = "ready"
    /\ result = "UnexpectedError"

\* C26: a request client sends its request only after it has received the
\* ready notification.
C26_RequestAfterReady == gsent > 0 => gfirst = "ready"

C28_SuccessWhicheverForm ==
    Dispatched =>
        /\ \A i \in Items :
              outcome[i] \in {"Success", "SuccessNoVideo"} =>
                  ret[i] = "output_path"
        /\ processed_count >= Ended({"Success", "SuccessNoVideo"})

\* the outcomes of generate_video that name a failure of the transport
TransportResults == {"ConnectionClosed", "ConnectionRefused", "InvalidURI"}

\* C29: when the connection cannot be opened, or closes before a terminal
\* notification, the client ends with the transport failure outcome.
C29_TransportClosedOutcome ==
    graised \in ConnectExceptions \cup ClosedExceptions =>
        result \in TransportResults

NoWayBack ==
    Dispatched =>
        \A i \in 1 .. MaxItems :
            i \in Items =>
                /\ tpc[i] \in {"waitready", "sending", "waiting", "returned"}
                      => tpc'[i] # "connecting"
                /\ tpc[i] \in {"waiting", "returned"} => tpc'[i] # "sending"
                /\ tpc[i] = "returned" => tpc'[i] = "returned"

\* C31: for one work item the client connects at most once and sends its
\* request at most once, however the item ends.
C31_NoRetry ==
    /\ [](gconnects <= 1 /\ gsent <= 1 /\ gsent <= gconnects)
    /\ [][NoWayBack]_vars

C31_Witness ==
    /\ gpc = "returned"
    /\ graised = "ConnectionClosedError"
    /\ gconnects = 1
    /\ gsent = 1

\* C33: a request whose audio fails to decode after its image was written
\* to a temporary file gets an error, does not reach the engine, and has
\* no temporary file left when the handler receives again, on the first
\* request of a connection and on later ones.
C33_PartialDecodeCleaned ==
    \A k \in 1 .. nreq :
        (reqs[k].failed = "decode" /\ reqs[k].tmp # {}) =>
            /\ reqs[k].engine = 0
            /\ Count(k, {"success"}) = 0
            /\ (k < nreq \/ spc = "recv") => reqs[k].tmp \cap files = {}
            /\ (conn = "open" /\ (k < nreq \/ spc = "recv")) =>
                   Count(k, {"error"}) = 1

C33_Witness ==
    /\ conn = "open"
    /\ spc = "recv"
    /\ nreq = 2
    /\ Count(1, {"success"}) = 1
    /\ reqs[2].failed = "decode"
    /\ reqs[2].tmp # {}
    /\ audio_file # 0
    /\ files = {}

\* a step writes one of the counters of the processor object
CounterWritten ==
    \/ processed_count' # processed_count
    \/ failed_count' # failed_count

\* C36: between the work items that run at the same time the slot count is
\* the only variable that more than one of them reads and writes: an item
\* that writes a counter another item has written before is the only item
\* in flight.
C36_OnlySlotsShared ==
    [][(CounterWritten /\ processed_count + failed_count > 0)
          => Cardinality(Holders) <= 1]_vars

\* what reaches the engine for option k under keyword a
Reaches(k, a, default) ==
    oargs[a] = IF k \in DOMAIN OptionsOf(odata)
               THEN OptionsOf(odata)[k] ELSE default

\* C34: an omitted option reaches the engine with its default, a given
\* option with the given value, and a field the handler does not know
\* never makes the request fail.
C34_OptionsReachEngine ==
    /\ odata.kind # "other" => opc # "error"
    /\ opc = "invoked" =>
          /\ Reaches("preprocess", "preprocess", "crop")
          /\ Reaches("still_mode", "still_mode", FALSE)
          /\ Reaches("use_enhancer", "use_enhancer", FALSE)
          /\ Reaches("batch_size", "batch_size", 2)
          /\ Reaches("size", "size", 256)
          /\ Reaches("pose_style", "pose_style", 0)
          /\ Reaches("expression_scale", "exp_scale", "1.0")

C34_Witness ==
    /\ opc = "invoked"
    /\ odata.kind = "object"
    /\ DOMAIN odata.options = {UnknownKey, "size", "still_mode"}
    /\ odata.options.size = 512
    /\ oargs.size = 512
    /\ oargs.still_mode = odata.options.still_mode
    /\ oargs.pose_style = 0
    /\ oargs.preprocess = "crop"

\* the documented ranges of the options
InRange(a) ==
    /\ a.preprocess \in {"crop", "resize", "full"}
    /\ a.size \in {256, 512}
    /\ a.pose_style \in 0 .. 46
    /\ a.batch_size >= 1

\* C35: the engine is never called with an option value out of range: a
\* request holding one is rejected before the call.
C35_OutOfRangeRejected == opc = "invoked" => InRange(oargs)

\* C32: while the engine call of one connection is in progress, another
\* connection can take its next step: be accepted, get the engine and its
\* ready, have a request received, have its result sent.
C32_InferenceDoesNotStarve ==
    \A a \in Sessions : \A b \in Sessions :
        (running = a /\ b # a) =>
            /\ mpc[b] = "idle" => ENABLED SessionAccept(b)
            /\ mpc[b] = "accepted" => ENABLED GetSadTalker(b)
            /\ mpc[b] = "serving" => ENABLED SessionReceive(b)
            /\ mpc[b] = "inferred" => ENABLED RespondBase64(b)

Inferring == { c \in Sessions : mpc[c] = "inferring" }

\* the event loop is occupied exactly while some connection is inside the
\* engine call
RunningIsInferring ==
    /\ running = 0 => Inferring = {}
    /\ running # 0 => Inferring = {running}

\* from the start of an engine call the next step is its return
NothingElseRuns ==
    running # 0 =>
        /\ running' = 0
        /\ mpc'[running] # "inferring"
        /\ \A c \in Sessions :
              c # running => (mpc'[c] = mpc[c] /\ msent'[c] = msent[c])
        /\ http' = http

\* C37: at most one engine call is in progress in the process, and between
\* its start and its return no other connection takes a step.
C37_OneInferenceNoInterleaving ==
    /\ [](Cardinality(Inferring) <= 1 /\ RunningIsInferring)
    /\ [][NothingElseRuns]_vars

C37_Witness ==
    /\ running = 1
    /\ mpc[1] = "inferring"
    /\ mpc[2] = "processing"
    /\ "ready" \in msent[2]

\* the step of get_sad_talker that constructs the engine
Construct(c) == GetSadTalker(c) /\ sad_talker'

\* ready is sent to connections that hold the engine; a connection whose
\* construction failed ends with at most the server error
ReadyOnlyWithEngine ==
    \A c \in Sessions :
        /\ "ready" \in msent[c] => (sad_talker /\ talker[c] # 0)
        /\ talker[c] = 0 => mpc[c] \in {"idle", "accepted", "ended"}
        /\ talker[c] = 0 => msent[c] \subseteq {"server_error"}
        /\ (mpc[c] = "ended" /\ talker[c] # 0) => "ready" \in msent[c]

\* while the engine is unset, an accepted connection constructs it
TriesAgain ==
    \A c \in Sessions :
        (~sad_talker /\ mpc[c] = "accepted" /\ running = 0)
            => ENABLED Construct(c)

\* a failed construction leaves the engine unset
FailureLeavesUnset ==
    \A c \in Sessions :
        (mpc[c] = "accepted" /\ mpc'[c] = "ended") =>
            (~sad_talker /\ ~sad_talker' /\ constructed' = constructed)

\* C38: ready is sent only on a connection for which the engine exists; a
\* connection whose construction failed gets no ready, has no request
\* processed and ends after the server error, and the engine stays unset
\* so that the next connection constructs it.
C38_ReadyOnlyWithEngine ==
    /\ [](ReadyOnlyWithEngine /\ TriesAgain)
    /\ [][FailureLeavesUnset]_vars

C38_Witness ==
    /\ mpc[1] = "ended"
    /\ talker[1] = 0
    /\ msent[1] = {"server_error"}
    /\ talker[2] = 1
    /\ constructed = 1
    /\ msent[2] = {"ready", "success"}

====
